---- MODULE Spec2Model ----
(***************************************************************************)
(* Model of github.com/bborbe/http: the retrying RoundTripper              *)
(* (http_roundtripper-retry.go) and the error classifier (http_errors.go). *)
(*                                                                         *)
(* One RoundTrip call of one retryRoundTripper is modelled as a state      *)
(* machine.  The inner RoundTripper, the request body reader, the timer    *)
(* of the inter-attempt delay and the request context are the environment. *)
(***************************************************************************)
EXTENDS Integers, Sequences, FiniteSets, TLC

(***************************************************************************)
(* Bounds of the model.                                                    *)
(***************************************************************************)
MaxRetryLimit == 2      \* retryLimit is drawn from 0..MaxRetryLimit
MaxCalls == 4           \* inner invocations of a call whose outcome is recorded
IntBits == 4            \* width of the retry counter (a Go int, two's complement)
MaxBodyLen == 2         \* longest request body
MaxBudget == 2          \* WithRedirects is called with -2..MaxBudget (and 10)
MaxChain == 4           \* requests of one redirect chain that are explored
MaxWith == 2            \* With* calls made on one builder
MaxConcCalls == 3       \* invocations recorded per concurrent call
MaxWrap == 3            \* wrapping layers around the cause of a classified error
MaxNow == 11            \* the clock of the dangerous-handler wrapper runs from 0 to MaxNow
MaxPass == 3            \* passphrases 1..MaxPass are tried by requests (0 is the empty one)
MaxConns == 2           \* requests the server serves at a time

(***************************************************************************)
(* The retry counter is a Go int: incrementing the largest value wraps to  *)
(* the smallest.                                                           *)
(***************************************************************************)
MaxInt == 2^(IntBits - 1) - 1

MinInt == -(2^(IntBits - 1))

Increment(n) == IF n = MaxInt THEN MinInt ELSE n + 1

(***************************************************************************)
(* Errors.  An error is the chain of its layers, outermost first; the last *)
(* element is the original cause.  The nil error is the empty chain.       *)
(***************************************************************************)
NilErr == <<>>

\* errors.Wrap(ctx, err, msg): a new outer layer, the chain below is kept;
\* wrapping the nil error gives the nil error.
Wrap(err, msg) == IF err = NilErr THEN NilErr ELSE <<msg>> \o err

\* errors.Is(err, target) for a sentinel target: some layer is the target.
Is(err, target) == \E i \in 1..Len(err) : err[i] = target

\* The layers that implement Timeout() bool, and what they report.
HasTimeoutError(layer) ==
    layer \in {"TimeoutTrue", "TimeoutFalse", "DeadlineExceeded", "ECONNREFUSED"}

Timeout(layer) == layer \in {"TimeoutTrue", "DeadlineExceeded"}

\* liberrors.Unwrap(err): the chain below the outermost layer (nil if none).
Unwrap(err) == IF Len(err) > 1 THEN Tail(err) ELSE NilErr

\* Variant of IsRetryError that takes every error with a Timeout method for
\* a timeout, whatever the method reports.
IsRetryError_anyTimeoutMethod(err) ==
    IF Is(err, "EOF") THEN TRUE
    ELSE IF Is(err, "ECONNREFUSED") THEN TRUE
    ELSE IF Is(err, "DeadlineExceeded") THEN TRUE
    ELSE IF Is(err, "ErrHandlerTimeout") THEN TRUE
    ELSE Unwrap(err) # NilErr /\ HasTimeoutError(Head(Unwrap(err)))

IsRetryError(err) ==
    IF Is(err, "EOF") THEN TRUE
    ELSE IF Is(err, "ECONNREFUSED") THEN TRUE
    ELSE IF Is(err, "DeadlineExceeded") THEN TRUE
    ELSE IF Is(err, "ErrHandlerTimeout") THEN TRUE
    ELSE IF Unwrap(err) # NilErr /\ HasTimeoutError(Head(Unwrap(err)))
         THEN Timeout(Head(Unwrap(err)))
    ELSE FALSE

(***************************************************************************)
(* Responses.  A response carries its status code and the number of the    *)
(* inner invocation that produced it; the nil response has status 0.       *)
(***************************************************************************)
NilResp == [StatusCode |-> 0, attempt |-> 0]

Response(status, n) == [StatusCode |-> status, attempt |-> n]

PreventRetryHeaderName == "X-Prevent-Retry"

defaultSkipStatusCodes == <<400, 401, 404>>

\* toStatusCodeMap: the set of codes the map holds as true.
toStatusCodeMap(skipStatusCodes) ==
    {skipStatusCodes[i] : i \in 1..Len(skipStatusCodes)}

(***************************************************************************)
(* Inputs the model draws from.                                            *)
(***************************************************************************)
\* Status codes the inner RoundTripper may answer with.
StatusCodes == {200, 400, 401, 404, 500, 502, 503, 504}

\* Errors the inner RoundTripper may return.
InnerErrors == {<<"EOF">>, <<"OpError", "ECONNREFUSED">>, <<"Generic">>}

\* Skip lists a transport may be constructed with.
SkipLists == {defaultSkipStatusCodes, <<404, 500>>}

\* Values of the X-Prevent-Retry header of a request ("" = absent).
HeaderValues == {"", "true", "0"}

\* ctx.Err() values: nil while the context is live.
CtxErrors == {<<"Canceled">>, <<"DeadlineExceeded">>}

\* Request bodies: the bytes 1..n, for every length n up to MaxBodyLen.
Bodies == {[i \in 1..n |-> i] : n \in 0..MaxBodyLen}

\* A body reader: no reader at all (req.Body == nil), or data read from pos.
NilBody == [present |-> FALSE, data |-> <<>>, pos |-> 0, fail |-> FALSE]

Reader(data, fail) == [present |-> TRUE, data |-> data, pos |-> 0, fail |-> fail]

\* What a reader still yields.
Remaining(rd) == SubSeq(rd.data, rd.pos + 1, Len(rd.data))

RequestBodies ==
    {NilBody} \cup {Reader(d, f) : d \in Bodies, f \in BOOLEAN}

(***************************************************************************)
(* State.                                                                  *)
(***************************************************************************)
VARIABLES
    retryLimit,          \* retryRoundTripper.retryLimit
    retryDelay,          \* retryRoundTripper.retryDelay (0 = none)
    skipStatusCodesMap,  \* retryRoundTripper.skipStatusCodesMap
    pc,                  \* position of the RoundTrip call
    header,              \* req.Header.Get(PreventRetryHeaderName)
    reqBody,             \* req.Body, the caller's reader
    ctxErr,              \* ctx.Err()
    body,                \* the buffered body bytes (local of RoundTrip)
    retryCounter,        \* the call's retry counter (local of RoundTrip)
    sent,                \* body reader of the request handed to the inner RoundTripper
    handed,              \* what that reader yielded when it was handed over
    calls,               \* number of inner RoundTrip invocations so far
    bodyReads,           \* number of times req.Body was read by the transport
    outcomes,            \* outcomes of the inner invocations, in order
    result               \* what RoundTrip returned

\* Concurrent RoundTrip calls on the one transport: for every call its own
\* position, locals, history and result.
VARIABLES
    cc

\* The client builder and what it built.
VARIABLES
    builder,             \* the httpClientBuilder (the receiver h)
    withCalls,           \* number of With* calls made on it
    roundTripper,        \* what the last BuildRoundTripper returned
    client,              \* what the last Build returned
    chain                \* a request of the built client and its redirects

\* A call of IsRetryError: its argument and what it returned.
VARIABLES
    retryCheck

\* The dangerous-handler wrapper, the clock it reads and its requests.
VARIABLES
    wrapper,             \* dangerousHandlerWrapper: passphrase and expiry
    now,                 \* currentDateTime.Now(), in minutes
    dreq                 \* the ServeHTTP calls on the wrapper

\* A background-run handler: its ParallelSkipper and its trigger requests.
VARIABLES
    skipper,
    trig

\* The run function NewServer returns, its context and its http.Server.
VARIABLES
    srv

vars == <<retryLimit, retryDelay, skipStatusCodesMap, pc, header, reqBody,
          ctxErr, body, retryCounter, sent, handed, calls, bodyReads,
          outcomes, result, cc, builder, withCalls, roundTripper, client,
          chain, retryCheck, wrapper, now, dreq, skipper, trig, srv>>

callVars == <<pc, header, reqBody, ctxErr, body, retryCounter, sent, handed,
              calls, bodyReads, outcomes, result>>

concVars == <<cc>>

classifierVars == <<retryCheck>>

gateVars == <<wrapper, now, dreq>>

backgroundVars == <<skipper, trig>>

serverVars == <<srv>>

handlerVars == <<classifierVars, gateVars, backgroundVars, serverVars>>

builderVars == <<builder, withCalls, roundTripper, client, chain>>

transportVars == <<retryLimit, retryDelay, skipStatusCodesMap>>

Outcome(resp, err) == [resp |-> resp, err |-> err]

NoResult == Outcome(NilResp, NilErr)

\* The history of a call: invocations are counted and their outcomes kept
\* while the call has made at most MaxCalls invocations.  With invocation
\* MaxCalls + 1 the outcomes are dropped, and calls = MaxCalls + 1 stands
\* for any larger number of invocations.
Recorded == calls <= MaxCalls

CountCall == IF calls > MaxCalls THEN calls ELSE calls + 1

KeepHistory == IF calls < MaxCalls THEN outcomes ELSE <<>>

Record(o) == IF Recorded THEN Append(outcomes, o) ELSE <<>>

(***************************************************************************)
(* The pure parts of retryRoundTripper.                                    *)
(***************************************************************************)
\* Variants of shouldRetryError with a plausible slip: the counter compared
\* with <=, and the classifier not consulted.
shouldRetryError_offByOne(err, counter) ==
    IsRetryError(err) /\ counter <= retryLimit

shouldRetryError_anyError(err, counter) ==
    counter < retryLimit

shouldRetryError(err, counter) ==
    IsRetryError(err) /\ counter < retryLimit

\* Variants of shouldRetryStatusCode with a plausible slip: no test for
\* codes below 400, no test of the skip map, every code retried at the limit.
shouldRetryStatusCode_noSuccessTest(statusCode, counter) ==
    IF statusCode \in skipStatusCodesMap THEN FALSE
    ELSE IF retryLimit = counter
         THEN statusCode = 502 \/ statusCode = 503 \/ statusCode = 504
    ELSE TRUE

shouldRetryStatusCode_noSkipTest(statusCode, counter) ==
    IF statusCode < 400 THEN FALSE
    ELSE IF retryLimit = counter
         THEN statusCode = 502 \/ statusCode = 503 \/ statusCode = 504
    ELSE TRUE

shouldRetryStatusCode_noLimitTest(statusCode, counter) ==
    IF statusCode < 400 THEN FALSE
    ELSE IF statusCode \in skipStatusCodesMap THEN FALSE
    ELSE TRUE

shouldRetryStatusCode(statusCode, counter) ==
    IF statusCode < 400 THEN FALSE
    ELSE IF statusCode \in skipStatusCodesMap THEN FALSE
    ELSE IF retryLimit = counter
         THEN statusCode = 502 \/ statusCode = 503 \/ statusCode = 504
    ELSE TRUE

\* Variant of the prevent-retry test that accepts the value "true" only.
preventRetry_onlyTrue(h) == h = "true"

\* The prevent-retry test of RoundTrip on the header value of the request.
preventRetry(h) == h # ""

\* Variant of readRequestBody that drops the error of io.ReadAll.
readRequestBody_ignoreError(rd) ==
    IF ~rd.present \/ rd.fail THEN [bytes |-> <<>>, err |-> NilErr]
    ELSE [bytes |-> Remaining(rd), err |-> NilErr]

\* readRequestBody: io.ReadAll of req.Body; nil body gives nil bytes.
readRequestBody(rd) ==
    IF ~rd.present THEN [bytes |-> <<>>, err |-> NilErr]
    ELSE IF rd.fail THEN [bytes |-> <<>>, err |-> <<"ReadError">>]
    ELSE [bytes |-> Remaining(rd), err |-> NilErr]

\* Variant of executeRequest that leaves the caller's reader on the clone.
executeRequestBody_noReplay(rd, bytes) == rd

\* executeRequest: the body reader of the cloned request.
executeRequestBody(rd, bytes) ==
    IF rd.present THEN Reader(bytes, FALSE) ELSE NilBody

(***************************************************************************)
(* The client builder (http_client-builder.go) and the TLS configuration   *)
(* (http_roundtripper-default.go).                                         *)
(***************************************************************************)
VersionTLS12 == 771

\* A *tls.Config; isNil marks the nil pointer.
NilConfig ==
    [isNil |-> TRUE, MinVersion |-> 0, InsecureSkipVerify |-> FALSE,
     Certificates |-> FALSE, RootCAs |-> "nil"]

\* Files the paths name.  A key pair loads from "client.crt" and
\* "client.key"; "missing.pem" cannot be read; "garbage.pem" can be read but
\* holds no PEM certificate.
LoadX509KeyPair(certPath, keyPath) ==
    IF certPath = "client.crt" /\ keyPath = "client.key"
    THEN NilErr
    ELSE <<"LoadX509KeyPairError">>

ReadFile(path) == IF path = "missing.pem" THEN <<"ENOENT">> ELSE NilErr

AppendCertsFromPEM(path) == path = "ca.pem"

\* Variant of CreateTLSClientConfig that leaves MinVersion unset.
CreateTLSClientConfig_noMinVersion(caCertPath, clientCertPath, clientKeyPath) ==
    IF LoadX509KeyPair(clientCertPath, clientKeyPath) # NilErr
    THEN [cfg |-> NilConfig,
          err |-> Wrap(LoadX509KeyPair(clientCertPath, clientKeyPath),
                       "load client certificate and key failed")]
    ELSE IF ReadFile(caCertPath) # NilErr
    THEN [cfg |-> NilConfig,
          err |-> Wrap(ReadFile(caCertPath), "read CA certificate failed")]
    ELSE IF ~AppendCertsFromPEM(caCertPath)
    THEN [cfg |-> NilConfig,
          err |-> Wrap(ReadFile(caCertPath), "append CA certificate to pool failed")]
    ELSE [cfg |-> [isNil |-> FALSE, MinVersion |-> 0,
                   InsecureSkipVerify |-> FALSE, Certificates |-> TRUE,
                   RootCAs |-> "caCertPool"],
          err |-> NilErr]

\* CreateTLSClientConfig.  When the CA cannot be appended to the pool the
\* error that is wrapped is the one of the successful ReadFile, i.e. nil.
CreateTLSClientConfig(caCertPath, clientCertPath, clientKeyPath) ==
    IF LoadX509KeyPair(clientCertPath, clientKeyPath) # NilErr
    THEN [cfg |-> NilConfig,
          err |-> Wrap(LoadX509KeyPair(clientCertPath, clientKeyPath),
                       "load client certificate and key failed")]
    ELSE IF ReadFile(caCertPath) # NilErr
    THEN [cfg |-> NilConfig,
          err |-> Wrap(ReadFile(caCertPath), "read CA certificate failed")]
    ELSE IF ~AppendCertsFromPEM(caCertPath)
    THEN [cfg |-> NilConfig,
          err |-> Wrap(ReadFile(caCertPath), "append CA certificate to pool failed")]
    ELSE [cfg |-> [isNil |-> FALSE, MinVersion |-> VersionTLS12,
                   InsecureSkipVerify |-> FALSE, Certificates |-> TRUE,
                   RootCAs |-> "caCertPool"],
          err |-> NilErr]

\* Variants of createTLSConfig: the flag is written before the config of the
\* certificate material replaces the default one, and the material is
\* loaded as soon as one path is set.
createTLSConfig_flagFirst(b) ==
    IF b.caCertPath # "" /\ b.clientCertPath # "" /\ b.clientKeyPath # ""
    THEN LET r == CreateTLSClientConfig(b.caCertPath, b.clientCertPath,
                                        b.clientKeyPath) IN
         IF r.err # NilErr
         THEN [status |-> "error", cfg |-> NilConfig,
               err |-> Wrap(r.err, "create tls config failed")]
         ELSE IF r.cfg.isNil
         THEN [status |-> "panic", cfg |-> NilConfig, err |-> NilErr]
         ELSE [status |-> "ok",
               cfg |-> r.cfg,
               err |-> NilErr]
    ELSE [status |-> "ok",
          cfg |-> [isNil |-> FALSE, MinVersion |-> VersionTLS12,
                   InsecureSkipVerify |-> b.insecureSkipVerify,
                   Certificates |-> FALSE, RootCAs |-> "system"],
          err |-> NilErr]

createTLSConfig_anyPath(b) ==
    IF b.caCertPath # "" \/ b.clientCertPath # "" \/ b.clientKeyPath # ""
    THEN LET r == CreateTLSClientConfig(b.caCertPath, b.clientCertPath,
                                        b.clientKeyPath) IN
         IF r.err # NilErr
         THEN [status |-> "error", cfg |-> NilConfig,
               err |-> Wrap(r.err, "create tls config failed")]
         ELSE IF r.cfg.isNil
         THEN [status |-> "panic", cfg |-> NilConfig, err |-> NilErr]
         ELSE [status |-> "ok",
               cfg |-> [r.cfg EXCEPT !.InsecureSkipVerify = b.insecureSkipVerify],
               err |-> NilErr]
    ELSE [status |-> "ok",
          cfg |-> [isNil |-> FALSE, MinVersion |-> VersionTLS12,
                   InsecureSkipVerify |-> b.insecureSkipVerify,
                   Certificates |-> FALSE, RootCAs |-> "system"],
          err |-> NilErr]

\* createTLSConfig of the builder b.  Writing InsecureSkipVerify through a
\* nil *tls.Config panics.
createTLSConfig(b) ==
    IF b.caCertPath # "" /\ b.clientCertPath # "" /\ b.clientKeyPath # ""
    THEN LET r == CreateTLSClientConfig(b.caCertPath, b.clientCertPath,
                                        b.clientKeyPath) IN
         IF r.err # NilErr
         THEN [status |-> "error", cfg |-> NilConfig,
               err |-> Wrap(r.err, "create tls config failed")]
         ELSE IF r.cfg.isNil
         THEN [status |-> "panic", cfg |-> NilConfig, err |-> NilErr]
         ELSE [status |-> "ok",
               cfg |-> [r.cfg EXCEPT !.InsecureSkipVerify = b.insecureSkipVerify],
               err |-> NilErr]
    ELSE [status |-> "ok",
          cfg |-> [isNil |-> FALSE, MinVersion |-> VersionTLS12,
                   InsecureSkipVerify |-> b.insecureSkipVerify,
                   Certificates |-> FALSE, RootCAs |-> "system"],
          err |-> NilErr]

\* Variant of the retry test of BuildRoundTripper: one of the two
\* conditions is enough.
retryEnabled_either(limit, delay) == delay > 0 \/ limit > 0

\* The retry test of BuildRoundTripper.
retryEnabled(limit, delay) == delay > 0 /\ limit > 0

\* The builder NewClientBuilder returns.
NewClientBuilder ==
    [proxy |-> "nil", maxRedirect |-> 10, timeout |-> 30, dialFunc |-> "nil",
     insecureSkipVerify |-> FALSE, retryLimit |-> 0, retryDelay |-> 0,
     caCertPath |-> "", clientCertPath |-> "", clientKeyPath |-> ""]

\* What BuildRoundTripper of the builder b returns: the transport with the
\* values it was given, wrapped in the retrying transport or not; config is
\* the builder as it was at that moment.
NoTransport ==
    [retry |-> FALSE, retryLimit |-> 0, retryDelay |-> 0, proxy |-> "nil",
     dial |-> "nil", tls |-> NilConfig]

NotBuilt ==
    [status |-> "none", err |-> NilErr, transport |-> NoTransport,
     CheckRedirect |-> "nil", config |-> NewClientBuilder]

\* BuildDialFunc: the dial function set, else the DialContext of a
\* net.Dialer with the timeout of the builder.
BuildDialFunc(b) ==
    IF b.dialFunc # "nil"
    THEN b.dialFunc
    ELSE "net.Dialer Timeout " \o ToString(b.timeout)

BuildRoundTripperOf(b) ==
    LET t == createTLSConfig(b) IN
    IF t.status = "panic"
    THEN [NotBuilt EXCEPT !.status = "panic", !.config = b]
    ELSE IF t.err # NilErr
    THEN [NotBuilt EXCEPT !.status = "error",
                          !.err = Wrap(t.err, "create tlsConfig failed"),
                          !.config = b]
    ELSE [NotBuilt EXCEPT
            !.status = "ok",
            !.transport =
                [retry |-> retryEnabled(b.retryLimit, b.retryDelay),
                 retryLimit |-> IF retryEnabled(b.retryLimit, b.retryDelay)
                                THEN b.retryLimit ELSE 0,
                 retryDelay |-> IF retryEnabled(b.retryLimit, b.retryDelay)
                                THEN b.retryDelay ELSE 0,
                 proxy |-> b.proxy,
                 dial |-> BuildDialFunc(b),
                 tls |-> t.cfg],
            !.config = b]

\* createCheckRedirect: which of the three closures the switch returns.
createCheckRedirect(maxRedirect) ==
    IF maxRedirect = -1 THEN "allow"
    ELSE IF maxRedirect = 0 THEN "useLast"
    ELSE "bounded"

\* A call of the closure with len(via) = lenVia.  The bounded closure reads
\* h.maxRedirect of the builder when it is called: maxRedirect is that value.
CheckRedirect(closure, maxRedirect, lenVia) ==
    IF closure = "allow" THEN NilErr
    ELSE IF closure = "useLast" THEN <<"ErrUseLastResponse">>
    ELSE IF lenVia >= maxRedirect
         THEN <<"stopped after " \o ToString(maxRedirect) \o " redirects",
                "too many redirects">>
    ELSE NilErr

\* What Build of the builder b returns.
BuildOf(b) ==
    LET rt == BuildRoundTripperOf(b) IN
    IF rt.status = "panic" THEN rt
    ELSE IF rt.err # NilErr
    THEN [rt EXCEPT !.err = Wrap(rt.err, "build roundTripper failed")]
    ELSE [rt EXCEPT !.CheckRedirect = createCheckRedirect(b.maxRedirect)]

\* Arguments the With* calls are made with.
RetryArgs == {<<2, 1>>, <<2, 0>>, <<0, 1>>, <<-1, 1>>, <<2, -1>>}

Budgets == (-2..MaxBudget) \cup {10}

CertArgs ==
    {<<"ca.pem", "client.crt", "client.key">>,
     <<"garbage.pem", "client.crt", "client.key">>,
     <<"missing.pem", "client.crt", "client.key">>,
     <<"ca.pem", "missing.crt", "client.key">>,
     <<"ca.pem", "", "client.key">>,
     <<"", "client.crt", "client.key">>,
     <<"missing.pem", "missing.crt", "">>,
     <<"", "", "">>}

\* Status codes the server of a redirect chain answers with.
ChainStatusCodes == {200, 301, 302}

NoChain ==
    [state |-> "idle", via |-> 0, hops |-> 0, code |-> 0, decided |-> NilErr,
     err |-> NilErr]

BuilderIdle ==
    /\ builder = NewClientBuilder
    /\ withCalls = 0
    /\ roundTripper = NotBuilt
    /\ client = NotBuilt
    /\ chain = NoChain

(***************************************************************************)
(* Concurrent calls: the state of one call.                                *)
(***************************************************************************)
Calls == {1, 2}

IdleCall ==
    [pc |-> "idle", data |-> <<>>, ctxErr |-> NilErr, body |-> <<>>,
     retryCounter |-> 0, sent |-> <<>>, calls |-> 0, outcomes |-> <<>>,
     result |-> NoResult]

ConcIdle == cc = [c \in Calls |-> IdleCall]

(***************************************************************************)
(* The other parts of the package: nothing has been called.                *)
(***************************************************************************)
NoCheck == [err |-> NilErr, called |-> FALSE, isRetryError |-> FALSE]

\* The wrapper NewDangerousHandlerWrapper returns: the empty passphrase and
\* the zero time as expiry.  A passphrase is the number of its generation
\* (0 is the empty string); issued lists the times of the generations.
NewDangerousHandlerWrapper == [passphrase |-> 0, expiry |-> 0, issued |-> <<>>]

DangerousRequests == {1, 2}

NoRequest ==
    [pc |-> "idle", provided |-> 0, at |-> 0, passphrase |-> 0, expiry |-> 0,
     status |-> 0, executed |-> FALSE]

GateIdle ==
    /\ wrapper = NewDangerousHandlerWrapper
    /\ now = 0
    /\ dreq = [r \in DangerousRequests |-> NoRequest]

\* The handler NewBackgroundRunHandler returns: nothing runs, no trigger
\* request has arrived.  executions counts the calls of runFunc.
NewParallelSkipper == [running |-> FALSE, executions |-> 0, inProgress |-> 0]

Triggers == {1, 2, 3}

NoTrigger ==
    [handler |-> "idle", goroutine |-> "none", duringRun |-> FALSE,
     foundBusy |-> FALSE]

BackgroundIdle ==
    /\ skipper = NewParallelSkipper
    /\ trig = [t \in Triggers |-> NoTrigger]

\* CreateServerOptions: ShutdownTimeout, in seconds, unless an option
\* function sets it.
DefaultShutdownTimeout == 5

\* The run function NewServer returns, before it is called: conns are the
\* requests being served, waited the seconds Shutdown has been waiting.
NewServer ==
    [pc |-> "idle", ctxDone |-> FALSE, shutdown |-> "none", conns |-> 0,
     waited |-> 0, result |-> NilErr,
     ShutdownTimeout |-> DefaultShutdownTimeout]

ServerIdle == srv = NewServer

HandlersIdle ==
    /\ retryCheck = NoCheck
    /\ GateIdle
    /\ BackgroundIdle
    /\ ServerIdle

(***************************************************************************)
(* Init: the transport as NewRoundTripperRetryWithSkipStatus constructed   *)
(* it, no call made yet.                                                   *)
(***************************************************************************)
Init ==
    /\ retryLimit \in 0..MaxRetryLimit
    /\ retryDelay \in {0, 1}
    /\ \E l \in SkipLists : skipStatusCodesMap = toStatusCodeMap(l)
    /\ BuilderIdle
    /\ ConcIdle
    /\ HandlersIdle
    /\ pc = "idle"
    /\ header = ""
    /\ reqBody = NilBody
    /\ ctxErr = NilErr
    /\ body = <<>>
    /\ retryCounter = 0
    /\ sent = NilBody
    /\ handed = <<>>
    /\ calls = 0
    /\ bodyReads = 0
    /\ outcomes = <<>>
    /\ result = NoResult

(***************************************************************************)
(* Operations.                                                             *)
(***************************************************************************)
\* RoundTrip returns (resp, err) to its caller.
Return(resp, err) ==
    /\ pc' = "done"
    /\ result' = Outcome(resp, err)

\* delayAndIncrement: with a delay configured the call waits in the select
\* of delay(); without one the counter is incremented at once.
delayAndIncrement ==
    IF retryDelay > 0
    THEN /\ pc' = "delay"
         /\ UNCHANGED <<retryCounter, result>>
    ELSE /\ retryCounter' = Increment(retryCounter)
         /\ pc' = "loop"
         /\ UNCHANGED result

handleRequestError(err) ==
    IF ~shouldRetryError(err, retryCounter)
    THEN /\ Return(NilResp, Wrap(err, "roundtrip failed"))
         /\ UNCHANGED retryCounter
    ELSE delayAndIncrement

\* Variant of handleRequestResponse that reports a server error that is not
\* retried any more as an error.
handleRequestResponse_asError(resp) ==
    IF ~shouldRetryStatusCode(resp.StatusCode, retryCounter)
    THEN /\ IF resp.StatusCode >= 500
            THEN Return(NilResp, <<"request failed">>)
            ELSE Return(resp, NilErr)
         /\ UNCHANGED retryCounter
    ELSE delayAndIncrement

handleRequestResponse(resp) ==
    IF ~shouldRetryStatusCode(resp.StatusCode, retryCounter)
    THEN /\ Return(resp, NilErr)
         /\ UNCHANGED retryCounter
    ELSE delayAndIncrement

\* RoundTrip is called with a request: header value h, body reader rd and a
\* context whose Err() is c.  With the prevent-retry header the request goes
\* to the inner RoundTripper as it is; otherwise the body is buffered and the
\* loop is entered.
RoundTrip(h, rd, c) ==
    /\ pc = "idle"
    /\ header' = h
    /\ ctxErr' = c
    /\ IF preventRetry(h)
       THEN /\ pc' = "bypass"
            /\ calls' = CountCall
            /\ sent' = rd
            /\ handed' = Remaining(rd)
            /\ reqBody' = rd
            /\ UNCHANGED <<body, bodyReads, retryCounter, result>>
       ELSE LET read == readRequestBody(rd) IN
            /\ reqBody' = IF rd.present /\ ~rd.fail
                          THEN [rd EXCEPT !.pos = Len(rd.data)]
                          ELSE rd
            /\ bodyReads' = IF rd.present THEN bodyReads + 1 ELSE bodyReads
            /\ IF read.err # NilErr
               THEN /\ Return(NilResp, read.err)
                    /\ UNCHANGED <<body, retryCounter>>
               ELSE /\ body' = read.bytes
                    /\ retryCounter' = 0
                    /\ pc' = "loop"
                    /\ UNCHANGED result
            /\ UNCHANGED <<calls, sent, handed>>
    /\ UNCHANGED <<transportVars, concVars, builderVars, handlerVars, outcomes>>

\* Variant of the head of the loop that does not look at ctx.Err().
attemptRequest_noCtxCheck ==
    /\ pc = "loop"
    /\ pc' = "inflight"
    /\ calls' = CountCall
    /\ outcomes' = KeepHistory
    /\ sent' = executeRequestBody(reqBody, body)
    /\ handed' = Remaining(executeRequestBody(reqBody, body))
    /\ UNCHANGED <<transportVars, concVars, builderVars, handlerVars, header, reqBody, ctxErr, body, retryCounter,
                   bodyReads, result>>

\* Head of the loop: ctx.Err() is checked, then attemptRequest hands a clone
\* of the request with a fresh body reader to the inner RoundTripper.
attemptRequest ==
    /\ pc = "loop"
    /\ IF ctxErr # NilErr
       THEN /\ Return(NilResp, ctxErr)
            /\ UNCHANGED <<calls, sent, handed, outcomes>>
       ELSE /\ pc' = "inflight"
            /\ calls' = CountCall
            /\ outcomes' = KeepHistory
            /\ sent' = executeRequestBody(reqBody, body)
            /\ handed' = Remaining(executeRequestBody(reqBody, body))
            /\ UNCHANGED result
    /\ UNCHANGED <<transportVars, concVars, builderVars, handlerVars, header, reqBody, ctxErr, body, retryCounter,
                   bodyReads>>

\* The inner RoundTripper reads n more bytes of the body it was handed.
InnerRead(n) ==
    /\ pc \in {"inflight", "bypass"}
    /\ sent.present
    /\ n >= 1
    /\ sent.pos + n <= Len(sent.data)
    /\ sent' = [sent EXCEPT !.pos = @ + n]
    /\ reqBody' = IF pc = "bypass" THEN sent' ELSE reqBody
    /\ UNCHANGED <<transportVars, concVars, builderVars, handlerVars, pc, header, ctxErr, body, retryCounter,
                   handed, calls, bodyReads, outcomes, result>>

\* The inner RoundTripper returns an error.
RoundTripReturnsError(err) ==
    /\ pc \in {"inflight", "bypass"}
    /\ outcomes' = Record(Outcome(NilResp, err))
    /\ IF pc = "bypass"
       THEN /\ Return(NilResp, err)
            /\ UNCHANGED retryCounter
       ELSE handleRequestError(err)
    /\ UNCHANGED <<transportVars, concVars, builderVars, handlerVars, header, reqBody, ctxErr, body, sent, handed,
                   calls, bodyReads>>

\* The inner RoundTripper returns a response.
RoundTripReturnsResponse(status) ==
    /\ pc \in {"inflight", "bypass"}
    /\ outcomes' = Record(Outcome(Response(status, calls), NilErr))
    /\ IF pc = "bypass"
       THEN /\ Return(Response(status, calls), NilErr)
            /\ UNCHANGED retryCounter
       ELSE handleRequestResponse(Response(status, calls))
    /\ UNCHANGED <<transportVars, concVars, builderVars, handlerVars, header, reqBody, ctxErr, body, sent, handed,
                   calls, bodyReads>>

\* delay(): the timer of the select fires; delayAndIncrement increments.
DelayElapsed ==
    /\ pc = "delay"
    /\ retryCounter' = Increment(retryCounter)
    /\ pc' = "loop"
    /\ UNCHANGED <<transportVars, concVars, builderVars, handlerVars, header, reqBody, ctxErr, body, sent, handed,
                   calls, bodyReads, outcomes, result>>

\* Variant of the cancelled delay that increments the counter before it
\* returns.
DelayCancelled_incremented ==
    /\ pc = "delay"
    /\ ctxErr # NilErr
    /\ Return(NilResp, Wrap(ctxErr, "delay failed"))
    /\ retryCounter' = Increment(retryCounter)
    /\ UNCHANGED <<transportVars, concVars, builderVars, handlerVars, header, reqBody, ctxErr, body,
                   sent, handed, calls, bodyReads, outcomes>>

\* delay(): ctx.Done() wins the select; the error is wrapped and returned.
DelayCancelled ==
    /\ pc = "delay"
    /\ ctxErr # NilErr
    /\ Return(NilResp, Wrap(ctxErr, "delay failed"))
    /\ UNCHANGED <<transportVars, concVars, builderVars, handlerVars, header, reqBody, ctxErr, body, retryCounter,
                   sent, handed, calls, bodyReads, outcomes>>

\* The environment cancels the context of the call (or its deadline passes).
ContextDone(c) ==
    /\ pc \notin {"idle", "done"}
    /\ ctxErr = NilErr
    /\ ctxErr' = c
    /\ UNCHANGED <<transportVars, concVars, builderVars, handlerVars, pc, header, reqBody, body, retryCounter,
                   sent, handed, calls, bodyReads, outcomes, result>>

Next ==
    \/ \E h \in HeaderValues, rd \in RequestBodies, c \in {NilErr} \cup CtxErrors :
          RoundTrip(h, rd, c)
    \/ attemptRequest
    \/ \E n \in 1..MaxBodyLen : InnerRead(n)
    \/ \E err \in InnerErrors : RoundTripReturnsError(err)
    \/ \E status \in StatusCodes : RoundTripReturnsResponse(status)
    \/ DelayElapsed
    \/ DelayCancelled
    \/ \E c \in CtxErrors : ContextDone(c)

Spec == Init /\ [][Next]_vars

\* The call makes progress whenever the inner RoundTripper returns and the
\* timer of the delay fires; nothing is assumed about the context.
InnerReturns ==
    \/ \E err \in InnerErrors : RoundTripReturnsError(err)
    \/ \E status \in StatusCodes : RoundTripReturnsResponse(status)

FairSpec ==
    /\ Spec
    /\ WF_vars(\E h \in HeaderValues, rd \in RequestBodies :
                   RoundTrip(h, rd, NilErr))
    /\ WF_vars(attemptRequest)
    /\ WF_vars(InnerReturns)
    /\ WF_vars(DelayElapsed)

(***************************************************************************)
(* Vocabulary of the properties.  The properties that speak of the         *)
(* outcomes of the inner invocations speak of the recorded ones.           *)
(***************************************************************************)
Last(seq) == seq[Len(seq)]

Cause(err) == err[Len(err)]

IsResponse(o) == o.err = NilErr

IsError(o) == o.err # NilErr

GatewayCodes == {502, 503, 504}

\* Every inner invocation so far answered with status s.
AllStatus(s) ==
    /\ Len(outcomes) >= 1
    /\ \A i \in 1..Len(outcomes) :
          IsResponse(outcomes[i]) /\ outcomes[i].resp.StatusCode = s

\* Every inner invocation so far failed with a transient error.
AllTransient ==
    /\ Len(outcomes) >= 1
    /\ \A i \in 1..Len(outcomes) :
          IsError(outcomes[i]) /\ IsRetryError(outcomes[i].err)

\* Outcome i is a failure the transport retries while attempts remain.
RetryableFailure(o) ==
    \/ IsError(o) /\ IsRetryError(o.err)
    \/ /\ IsResponse(o)
       /\ o.resp.StatusCode >= 400
       /\ o.resp.StatusCode \notin skipStatusCodesMap

(***************************************************************************)
(* C1: a call without the prevent-retry header invokes the inner           *)
(* RoundTripper at most retryLimit + 1 times and its retry counter never   *)
(* exceeds retryLimit, whatever the inner outcomes are.                    *)
(***************************************************************************)
C1_BoundedAttempts ==
    header = "" => (calls <= retryLimit + 1 /\ retryCounter <= retryLimit)

(***************************************************************************)
(* C2: when every attempt answers with the same gateway status (502, 503   *)
(* or 504), the response of attempt retryLimit + 1 is returned with a nil  *)
(* error and not retried.                                                  *)
(***************************************************************************)
C2_GatewayReturnedAtLimit ==
    \A s \in GatewayCodes :
        (/\ header = ""
         /\ s \notin skipStatusCodesMap
         /\ Recorded
         /\ AllStatus(s)
         /\ Len(outcomes) = retryLimit + 1)
        => /\ pc = "done"
           /\ calls = retryLimit + 1
           /\ result = Outcome(Last(outcomes).resp, NilErr)

(***************************************************************************)
(* C3: every RoundTrip call eventually returns, provided only that every   *)
(* inner invocation returns and every delay elapses.                       *)
(***************************************************************************)
C3_Terminates == (pc # "idle") ~> (pc = "done")

(***************************************************************************)
(* C4: with retryLimit > 0 and a transient error on every attempt, the     *)
(* call makes exactly retryLimit + 1 attempts and returns a nil response   *)
(* with the last transient error wrapped, its cause still identifiable;    *)
(* only a done context ends such a call earlier.                           *)
(***************************************************************************)
C4_TransientExhausted ==
    (header = "" /\ retryLimit > 0 /\ Recorded /\ AllTransient)
    => /\ calls <= retryLimit + 1
       /\ (Len(outcomes) = retryLimit + 1
           => /\ pc = "done"
              /\ calls = retryLimit + 1
              /\ result.resp = NilResp
              /\ result.err = Wrap(Last(outcomes).err, "roundtrip failed")
              /\ Is(result.err, Cause(Last(outcomes).err)))
       /\ (Len(outcomes) <= retryLimit /\ pc = "done" => ctxErr # NilErr)

C4_Witness ==
    /\ header = ""
    /\ retryLimit = 2
    /\ AllTransient
    /\ pc = "done"
    /\ calls = 3
    /\ ctxErr = NilErr
    /\ result.err = <<"roundtrip failed", "OpError", "ECONNREFUSED">>

(***************************************************************************)
(* C5: when attempts 1..k-1 fail with a transient error or a retryable     *)
(* status, k <= retryLimit + 1, and attempt k answers with a status below  *)
(* 400, exactly k attempts are made and the response of attempt k is       *)
(* returned with a nil error.                                              *)
(***************************************************************************)
C5_EarlySuccess ==
    (/\ header = ""
     /\ Recorded
     /\ Len(outcomes) >= 1
     /\ Len(outcomes) <= retryLimit + 1
     /\ \A i \in 1..(Len(outcomes) - 1) : RetryableFailure(outcomes[i])
     /\ IsResponse(Last(outcomes))
     /\ Last(outcomes).resp.StatusCode < 400)
    => /\ pc = "done"
       /\ calls = Len(outcomes)
       /\ result = Outcome(Response(Last(outcomes).resp.StatusCode, calls), NilErr)

C5_Witness ==
    /\ header = ""
    /\ pc = "done"
    /\ Len(outcomes) = 3
    /\ IsError(outcomes[1])
    /\ IsResponse(outcomes[2]) /\ outcomes[2].resp.StatusCode = 500
    /\ result = Outcome(Response(200, 3), NilErr)

(***************************************************************************)
(* C6: a response whose status is in the skip set or below 400 ends the    *)
(* call at the attempt that produced it: it is returned unmodified with a  *)
(* nil error and the inner RoundTripper is not invoked again, whatever the *)
(* retry limit and the retry counter.                                      *)
(***************************************************************************)
C6_SkipStatusEndsCall ==
    (/\ header = ""
     /\ Recorded
     /\ Len(outcomes) >= 1
     /\ IsResponse(Last(outcomes))
     /\ \/ Last(outcomes).resp.StatusCode < 400
        \/ Last(outcomes).resp.StatusCode \in skipStatusCodesMap)
    => /\ pc = "done"
       /\ calls = Len(outcomes)
       /\ result = Outcome(Last(outcomes).resp, NilErr)

C6_Witness ==
    /\ header = ""
    /\ retryLimit = 2
    /\ skipStatusCodesMap = {400, 401, 404}
    /\ pc = "done"
    /\ calls = 1
    /\ result = Outcome(Response(401, 1), NilErr)

\* A skip status also ends a call that has already retried.
C6_WitnessLate ==
    /\ header = ""
    /\ retryCounter = retryLimit
    /\ retryLimit > 0
    /\ pc = "done"
    /\ result.resp.StatusCode = 404

(***************************************************************************)
(* C7: when every attempt answers with the same status >= 400 that is      *)
(* neither in the skip set nor 502/503/504, exactly retryLimit + 1         *)
(* attempts are made and the response of the last attempt is returned with *)
(* a nil error; only a done context ends such a call earlier.              *)
(***************************************************************************)
C7_ServerErrorExhausted ==
    \A s \in StatusCodes :
        (/\ header = ""
         /\ s >= 400
         /\ s \notin skipStatusCodesMap
         /\ s \notin GatewayCodes
         /\ Recorded
         /\ AllStatus(s))
        => /\ calls <= retryLimit + 1
           /\ (Len(outcomes) = retryLimit + 1
               => /\ pc = "done"
                  /\ calls = retryLimit + 1
                  /\ result = Outcome(Response(s, retryLimit + 1), NilErr))
           /\ (Len(outcomes) <= retryLimit /\ pc = "done" => ctxErr # NilErr)

C7_Witness ==
    /\ header = ""
    /\ retryLimit = 2
    /\ AllStatus(500)
    /\ pc = "done"
    /\ calls = 3
    /\ result = Outcome(Response(500, 3), NilErr)

(***************************************************************************)
(* C8: a request with a non-empty prevent-retry header leads to exactly    *)
(* one inner invocation, whose response or error RoundTrip returns as it   *)
(* is, also for a transient error or a retryable status with               *)
(* retryLimit > 0.                                                         *)
(***************************************************************************)
C8_PreventRetry ==
    header # ""
    => /\ calls = 1
       /\ retryCounter = 0
       /\ bodyReads = 0
       /\ Len(outcomes) <= 1
       /\ (Len(outcomes) = 1 => pc = "done" /\ result = outcomes[1])
       /\ (pc = "done" => Len(outcomes) = 1)

C8_Witness ==
    /\ header = "0"
    /\ retryLimit = 2
    /\ pc = "done"
    /\ calls = 1
    /\ result = Outcome(NilResp, <<"EOF">>)

(***************************************************************************)
(* C9: on the retry path the body of the request is read once, before the  *)
(* first attempt, and every attempt hands the inner RoundTripper a reader  *)
(* that yields the whole original body from the start, however much an     *)
(* earlier attempt consumed.                                               *)
(***************************************************************************)
C9_BodyReplay ==
    (header = "" /\ reqBody.present /\ calls >= 1)
    => /\ bodyReads = 1
       /\ body = reqBody.data
       /\ handed = reqBody.data
       /\ sent.present
       /\ sent.data = reqBody.data

C9_Witness ==
    /\ header = ""
    /\ reqBody.present
    /\ reqBody.data = <<1, 2>>
    /\ calls = 3
    /\ pc = "inflight"
    /\ sent.pos = 1
    /\ handed = <<1, 2>>

(***************************************************************************)
(* C10: an inner error the classifier does not rate as transient ends the  *)
(* call at the attempt that produced it, also with the retry counter below *)
(* the limit: RoundTrip returns a nil response and an error wrapping that  *)
(* cause.                                                                  *)
(***************************************************************************)
C10_PermanentErrorSurfaced ==
    (/\ header = ""
     /\ Recorded
     /\ Len(outcomes) >= 1
     /\ IsError(Last(outcomes))
     /\ ~IsRetryError(Last(outcomes).err))
    => /\ pc = "done"
       /\ calls = Len(outcomes)
       /\ result.resp = NilResp
       /\ result.err = Wrap(Last(outcomes).err, "roundtrip failed")
       /\ Is(result.err, Cause(Last(outcomes).err))

C10_Witness ==
    /\ header = ""
    /\ retryLimit = 2
    /\ retryCounter = 0
    /\ pc = "done"
    /\ calls = 1
    /\ result = Outcome(NilResp, <<"roundtrip failed", "Generic">>)

(***************************************************************************)
(* C11: when the context is already done at the point where an attempt is  *)
(* about to start, the first attempt included, the inner RoundTripper is   *)
(* not invoked for that attempt and RoundTrip returns a nil response with  *)
(* the error of the context itself.                                        *)
(***************************************************************************)
C11_CancelledBeforeAttempt ==
    [][(pc = "loop" /\ ctxErr # NilErr)
       => /\ pc' = "done"
          /\ calls' = calls
          /\ outcomes' = outcomes
          /\ result' = Outcome(NilResp, ctxErr)]_vars

C11_Witness ==
    /\ header = ""
    /\ pc = "done"
    /\ calls = 2
    /\ Len(outcomes) = 2
    /\ retryCounter = 2
    /\ result = Outcome(NilResp, <<"DeadlineExceeded">>)

\* The context is done before the first attempt.
C11_WitnessFirst ==
    /\ header = ""
    /\ pc = "done"
    /\ calls = 0
    /\ result = Outcome(NilResp, <<"Canceled">>)

(***************************************************************************)
(* C12: when the context is done while the call waits out retryDelay and   *)
(* that ends the wait, RoundTrip returns a nil response with an error      *)
(* whose cause is the error of the context, the retry counter is not       *)
(* incremented and no further attempt is made.                             *)
(***************************************************************************)
C12_CancelledDuringDelay ==
    [][(pc = "delay" /\ ctxErr # NilErr)
       => /\ calls' = calls
          /\ (pc' = "done"
              => /\ result'.resp = NilResp
                 /\ result'.err = <<"delay failed">> \o ctxErr
                 /\ Is(result'.err, Cause(ctxErr))
                 /\ retryCounter' = retryCounter)]_vars

C12_Witness ==
    /\ header = ""
    /\ pc = "done"
    /\ calls = 1
    /\ retryCounter = 0
    /\ retryLimit = 2
    /\ result = Outcome(NilResp, <<"delay failed", "Canceled">>)

(***************************************************************************)
(* C13: a transport constructed with retryLimit = 0 or with retryDelay = 0 *)
(* does not retry: every call makes exactly one inner invocation and       *)
(* returns its outcome.                                                    *)
(***************************************************************************)
C13_NoRetryWhenDisabled ==
    (header = "" /\ (retryLimit = 0 \/ retryDelay = 0))
    => /\ calls <= 1
       /\ retryCounter = 0
       /\ (Len(outcomes) = 1 => pc = "done")

(***************************************************************************)
(* The client builder as a state machine: With* calls on one builder,      *)
(* BuildRoundTripper and Build, and a request of the built client whose    *)
(* redirects http.Client follows by asking the CheckRedirect closure.      *)
(***************************************************************************)
retryVars == <<transportVars, callVars>>

\* A With* call stores its arguments in the builder and returns it.
With(b) ==
    /\ withCalls < MaxWith
    /\ withCalls' = withCalls + 1
    /\ builder' = b
    /\ UNCHANGED <<retryVars, concVars, handlerVars, roundTripper, client, chain>>

WithRetry(limit, delay) ==
    With([builder EXCEPT !.retryLimit = limit, !.retryDelay = delay])

WithoutRetry ==
    With([builder EXCEPT !.retryLimit = 0, !.retryDelay = 0])

WithClientCert(caCertPath, clientCertPath, clientKeyPath) ==
    With([builder EXCEPT !.caCertPath = caCertPath,
                         !.clientCertPath = clientCertPath,
                         !.clientKeyPath = clientKeyPath])

WithTimeout(timeout) == With([builder EXCEPT !.timeout = timeout])

WithDialFunc(dialFunc) == With([builder EXCEPT !.dialFunc = dialFunc])

WithProxy == With([builder EXCEPT !.proxy = "ProxyFromEnvironment"])

WithoutProxy == With([builder EXCEPT !.proxy = "nil"])

WithRedirects(maxRedirect) == With([builder EXCEPT !.maxRedirect = maxRedirect])

WithoutRedirects == With([builder EXCEPT !.maxRedirect = 0])

WithInsecureSkipVerify(insecureSkipVerify) ==
    With([builder EXCEPT !.insecureSkipVerify = insecureSkipVerify])

BuildRoundTripper ==
    /\ roundTripper' = BuildRoundTripperOf(builder)
    /\ UNCHANGED <<retryVars, concVars, handlerVars, builder, withCalls, client, chain>>

\* Build; the client it returns has made no request yet.
Build ==
    /\ client' = BuildOf(builder)
    /\ chain' = NoChain
    /\ UNCHANGED <<retryVars, concVars, handlerVars, builder, withCalls, roundTripper>>

\* client.Get: the first request of a chain is about to be sent.
ClientGet ==
    /\ client.status = "ok"
    /\ chain.state = "idle"
    /\ chain' = [chain EXCEPT !.state = "sending"]
    /\ UNCHANGED <<retryVars, concVars, handlerVars, builder, withCalls, roundTripper, client>>

\* The request is sent and the server answers: a redirect status makes the
\* client prepare the next request, any other status is returned.
ServerResponds(code) ==
    /\ chain.state = "sending"
    /\ chain' = [chain EXCEPT !.via = @ + 1,
                              !.code = code,
                              !.state = IF code \in {301, 302}
                                        THEN "redirect" ELSE "returned"]
    /\ UNCHANGED <<retryVars, concVars, handlerVars, builder, withCalls, roundTripper, client>>

\* http.Client asks CheckRedirect(req, via) with all requests made so far:
\* nil lets it follow the redirect, ErrUseLastResponse makes it return the
\* redirect response with a nil error, any other error is returned.
FollowRedirect ==
    /\ chain.state = "redirect"
    /\ LET d == CheckRedirect(client.CheckRedirect, builder.maxRedirect,
                              chain.via) IN
       IF d = NilErr
       THEN /\ chain.via < MaxChain
            /\ chain' = [chain EXCEPT !.state = "sending", !.hops = @ + 1,
                                      !.decided = d]
       ELSE IF d = <<"ErrUseLastResponse">>
       THEN chain' = [chain EXCEPT !.state = "returned", !.decided = d]
       ELSE chain' = [chain EXCEPT !.state = "returned", !.decided = d,
                                   !.err = <<"url.Error">> \o d]
    /\ UNCHANGED <<retryVars, concVars, handlerVars, builder, withCalls, roundTripper, client>>

BuilderNext ==
    \/ \E a \in RetryArgs : WithRetry(a[1], a[2])
    \/ WithoutRetry
    \/ \E a \in CertArgs : WithClientCert(a[1], a[2], a[3])
    \/ \E t \in {10, 30} : WithTimeout(t)
    \/ WithDialFunc("custom")
    \/ WithProxy
    \/ WithoutProxy
    \/ \E n \in Budgets : WithRedirects(n)
    \/ WithoutRedirects
    \/ \E v \in BOOLEAN : WithInsecureSkipVerify(v)
    \/ BuildRoundTripper
    \/ Build
    \/ ClientGet
    \/ \E code \in ChainStatusCodes : ServerResponds(code)
    \/ FollowRedirect

\* The builder as NewClientBuilder returns it; no transport of the retry
\* model is in use.
BuilderInit ==
    /\ retryLimit = 0
    /\ retryDelay = 0
    /\ skipStatusCodesMap = toStatusCodeMap(defaultSkipStatusCodes)
    /\ BuilderIdle
    /\ ConcIdle
    /\ HandlersIdle
    /\ pc = "idle"
    /\ header = ""
    /\ reqBody = NilBody
    /\ ctxErr = NilErr
    /\ body = <<>>
    /\ retryCounter = 0
    /\ sent = NilBody
    /\ handed = <<>>
    /\ calls = 0
    /\ bodyReads = 0
    /\ outcomes = <<>>
    /\ result = NoResult

BuilderSpec == BuilderInit /\ [][BuilderNext]_vars

(***************************************************************************)
(* Claims about the client builder.                                        *)
(***************************************************************************)
\* The redirect decision stated for a budget and len(via) prior requests:
\* -1 allows every hop, 0 hands back the last response, N > 0 allows while
\* len(via) < N and then fails naming N.
RedirectTable(budget, lenVia) ==
    IF budget = -1 THEN NilErr
    ELSE IF budget = 0 THEN <<"ErrUseLastResponse">>
    ELSE IF lenVia < budget THEN NilErr
    ELSE <<"stopped after " \o ToString(budget) \o " redirects",
           "too many redirects">>

\* The client answers the redirect of the chain (http.Client called the
\* CheckRedirect closure).
RedirectDecided ==
    /\ chain.state = "redirect"
    /\ chain'.state \in {"sending", "returned"}

\* C15: after Build has returned, With* calls on the same builder leave the
\* built client unchanged: for every number of prior requests its redirect
\* decision is the one of the budget configured at Build time.
C15_FrozenAtBuild ==
    client.status = "ok"
    => \A n \in 1..MaxChain :
          CheckRedirect(client.CheckRedirect, builder.maxRedirect, n)
          = CheckRedirect(client.CheckRedirect, client.config.maxRedirect, n)

\* C16: BuildRoundTripper returns the retrying transport, with the count and
\* the delay set last, exactly when both are > 0; otherwise it returns the
\* bare base transport.
C16_RetryIffBothPositive ==
    roundTripper.status = "ok"
    => /\ roundTripper.transport.retry
          <=> (roundTripper.config.retryLimit > 0
               /\ roundTripper.config.retryDelay > 0)
       /\ roundTripper.transport.retry
          => /\ roundTripper.transport.retryLimit = roundTripper.config.retryLimit
             /\ roundTripper.transport.retryDelay = roundTripper.config.retryDelay
       /\ roundTripper.transport.proxy = roundTripper.config.proxy

C16_Witness ==
    /\ withCalls = 2
    /\ roundTripper.status = "ok"
    /\ roundTripper.transport.retry
    /\ roundTripper.transport.retryLimit = 2
    /\ roundTripper.config.caCertPath = "ca.pem"

C16_WitnessBare ==
    /\ roundTripper.status = "ok"
    /\ ~roundTripper.transport.retry
    /\ roundTripper.config.retryLimit = 2
    /\ roundTripper.config.retryDelay = 0

\* C17: a chain of a client with budget N > 0 (not changed since Build) that
\* fails on a redirect has followed exactly N redirects, and its error has
\* the cause ErrTooManyRedirects and the message "stopped after N redirects".
C17_ExactlyNHops ==
    (/\ chain.state = "returned"
     /\ chain.err # NilErr
     /\ client.config.maxRedirect > 0
     /\ builder.maxRedirect = client.config.maxRedirect)
    => /\ chain.hops = client.config.maxRedirect
       /\ Cause(chain.err) = "too many redirects"
       /\ Is(chain.err, "stopped after "
                        \o ToString(client.config.maxRedirect)
                        \o " redirects")

\* C18: the redirect decision of a built client is a function of the budget
\* it was built with and the number of prior requests of the chain: nil for
\* budget -1, the use-last-response sentinel for budget 0 (the 301/302 is
\* returned with no error and not followed), and for N > 0 nil exactly while
\* the number of prior requests is < N, else the too-many-redirects error.
C18_RedirectDecision ==
    [][(RedirectDecided /\ client.config.maxRedirect >= -1)
       => /\ chain'.decided
             = RedirectTable(client.config.maxRedirect, chain.via)
          /\ client.config.maxRedirect = 0
             => /\ chain'.state = "returned"
                /\ chain'.err = NilErr
                /\ chain'.code \in {301, 302}
                /\ chain'.hops = chain.hops]_vars

\* Loading the TLS material of the builder b fails at some step.
LoadFails(b) ==
    \/ LoadX509KeyPair(b.clientCertPath, b.clientKeyPath) # NilErr
    \/ ReadFile(b.caCertPath) # NilErr
    \/ ~AppendCertsFromPEM(b.caCertPath)

AllPathsSet(b) ==
    b.caCertPath # "" /\ b.clientCertPath # "" /\ b.clientKeyPath # ""

\* C19: when the three paths are set and a step of loading them fails,
\* BuildRoundTripper and Build return a non-nil error and nothing else.
C19_ConfigErrorsFailFast ==
    /\ (roundTripper.status # "none" /\ AllPathsSet(roundTripper.config)
        /\ LoadFails(roundTripper.config))
       => /\ roundTripper.status = "error"
          /\ roundTripper.err # NilErr
          /\ roundTripper.transport = NoTransport
    /\ (client.status # "none" /\ AllPathsSet(client.config)
        /\ LoadFails(client.config))
       => /\ client.status = "error"
          /\ client.err # NilErr
          /\ client.transport = NoTransport

\* C20: every TLS config the builder has produced has MinVersion TLS 1.2:
\* without certificate material, with it, and with insecure-skip-verify.
C20_MinVersionTLS12 ==
    /\ roundTripper.status = "ok"
       => /\ ~roundTripper.transport.tls.isNil
          /\ roundTripper.transport.tls.MinVersion = VersionTLS12
    /\ client.status = "ok"
       => /\ ~client.transport.tls.isNil
          /\ client.transport.tls.MinVersion = VersionTLS12

C20_Witness ==
    /\ client.status = "ok"
    /\ client.transport.tls.Certificates
    /\ client.transport.tls.InsecureSkipVerify

C20_WitnessDefault ==
    /\ roundTripper.status = "ok"
    /\ ~roundTripper.transport.tls.Certificates
    /\ roundTripper.transport.tls.InsecureSkipVerify

(***************************************************************************)
(* Concurrent RoundTrip calls on one retryRoundTripper.  The transport     *)
(* fields are shared; body, retryCounter and the request of a call are     *)
(* local variables of its RoundTrip.  Call c carries the body <<c>> and no *)
(* prevent-retry header.                                                   *)
(***************************************************************************)
\* Outcomes of the inner RoundTripper in the concurrent model.
ConcErrors == {<<"EOF">>, <<"Generic">>}

ConcStatusCodes == {200, 500, 503}

\* Variant in which the counter is kept in one place for all calls.
counterOf_shared(c) == cc[1].retryCounter

\* retryCounter := 0 in RoundTrip: the counter a call reads is its own.
counterOf(c) == cc[c].retryCounter

CReturn(c, resp, err) ==
    cc' = [cc EXCEPT ![c].pc = "done", ![c].result = Outcome(resp, err)]

CRecord(c, o) ==
    IF cc[c].calls <= MaxConcCalls THEN Append(cc[c].outcomes, o) ELSE <<>>

\* delayAndIncrement of call c after the outcome o.
CdelayAndIncrement(c, o) ==
    IF retryDelay > 0
    THEN cc' = [cc EXCEPT ![c].pc = "delay", ![c].outcomes = CRecord(c, o)]
    ELSE cc' = [cc EXCEPT ![c].pc = "loop", ![c].outcomes = CRecord(c, o),
                          ![c].retryCounter = Increment(counterOf(c))]

\* RoundTrip is called: the body is buffered, the counter starts at 0.
CRoundTrip(c) ==
    /\ cc[c].pc = "idle"
    /\ ~preventRetry("")
    /\ cc' = [cc EXCEPT ![c].pc = "loop",
                        ![c].data = <<c>>,
                        ![c].body = readRequestBody(Reader(<<c>>, FALSE)).bytes,
                        ![c].retryCounter = 0]
    /\ UNCHANGED <<transportVars, callVars, builderVars, handlerVars>>

\* Head of the loop of call c.
CattemptRequest(c) ==
    /\ cc[c].pc = "loop"
    /\ IF cc[c].ctxErr # NilErr
       THEN CReturn(c, NilResp, cc[c].ctxErr)
       ELSE cc' = [cc EXCEPT
                     ![c].pc = "inflight",
                     ![c].calls = IF @ > MaxConcCalls THEN @ ELSE @ + 1,
                     ![c].outcomes = IF cc[c].calls < MaxConcCalls THEN @ ELSE <<>>,
                     ![c].sent = Remaining(executeRequestBody(
                                     Reader(cc[c].data, FALSE), cc[c].body))]
    /\ UNCHANGED <<transportVars, callVars, builderVars, handlerVars>>

\* The inner RoundTripper returns an error to call c.
CRoundTripReturnsError(c, err) ==
    /\ cc[c].pc = "inflight"
    /\ IF ~shouldRetryError(err, counterOf(c))
       THEN cc' = [cc EXCEPT ![c].pc = "done",
                             ![c].outcomes = CRecord(c, Outcome(NilResp, err)),
                             ![c].result = Outcome(NilResp,
                                               Wrap(err, "roundtrip failed"))]
       ELSE CdelayAndIncrement(c, Outcome(NilResp, err))
    /\ UNCHANGED <<transportVars, callVars, builderVars, handlerVars>>

\* The inner RoundTripper returns a response to call c.
CRoundTripReturnsResponse(c, status) ==
    /\ cc[c].pc = "inflight"
    /\ LET resp == Response(status, cc[c].calls) IN
       IF ~shouldRetryStatusCode(status, counterOf(c))
       THEN cc' = [cc EXCEPT ![c].pc = "done",
                             ![c].outcomes = CRecord(c, Outcome(resp, NilErr)),
                             ![c].result = Outcome(resp, NilErr)]
       ELSE CdelayAndIncrement(c, Outcome(resp, NilErr))
    /\ UNCHANGED <<transportVars, callVars, builderVars, handlerVars>>

\* The timer of the delay of call c fires.
CDelayElapsed(c) ==
    /\ cc[c].pc = "delay"
    /\ cc' = [cc EXCEPT ![c].pc = "loop",
                        ![c].retryCounter = Increment(counterOf(c))]
    /\ UNCHANGED <<transportVars, callVars, builderVars, handlerVars>>

\* The context of call c is done while it waits.
CDelayCancelled(c) ==
    /\ cc[c].pc = "delay"
    /\ cc[c].ctxErr # NilErr
    /\ CReturn(c, NilResp, Wrap(cc[c].ctxErr, "delay failed"))
    /\ UNCHANGED <<transportVars, callVars, builderVars, handlerVars>>

\* The environment cancels the context of call c.
CContextDone(c) ==
    /\ cc[c].pc \notin {"idle", "done"}
    /\ cc[c].ctxErr = NilErr
    /\ cc' = [cc EXCEPT ![c].ctxErr = <<"Canceled">>]
    /\ UNCHANGED <<transportVars, callVars, builderVars, handlerVars>>

ConcNext ==
    \/ \E c \in Calls : CRoundTrip(c)
    \/ \E c \in Calls : CattemptRequest(c)
    \/ \E c \in Calls, err \in ConcErrors : CRoundTripReturnsError(c, err)
    \/ \E c \in Calls, status \in ConcStatusCodes :
          CRoundTripReturnsResponse(c, status)
    \/ \E c \in Calls : CDelayElapsed(c)
    \/ \E c \in Calls : CDelayCancelled(c)
    \/ \E c \in Calls : CContextDone(c)

\* One transport from NewRoundTripperRetry with the default skip list; no
\* call has started.
ConcInit ==
    /\ retryLimit \in 0..MaxRetryLimit
    /\ retryDelay \in {0, 1}
    /\ skipStatusCodesMap = toStatusCodeMap(defaultSkipStatusCodes)
    /\ ConcIdle
    /\ BuilderIdle
    /\ HandlersIdle
    /\ pc = "idle"
    /\ header = ""
    /\ reqBody = NilBody
    /\ ctxErr = NilErr
    /\ body = <<>>
    /\ retryCounter = 0
    /\ sent = NilBody
    /\ handed = <<>>
    /\ calls = 0
    /\ bodyReads = 0
    /\ outcomes = <<>>
    /\ result = NoResult

ConcSpec == ConcInit /\ [][ConcNext]_vars

(***************************************************************************)
(* Claim about concurrent calls.                                           *)
(***************************************************************************)
\* What a call running alone decides after the outcome o of its attempt
\* number n + 1: retry or not, and what it returns if not.
RetriedAlone(o, n) ==
    IF o.err # NilErr
    THEN shouldRetryError(o.err, n)
    ELSE shouldRetryStatusCode(o.resp.StatusCode, n)

ReturnedAlone(o) ==
    IF o.err # NilErr
    THEN Outcome(NilResp, Wrap(o.err, "roundtrip failed"))
    ELSE o

\* The call returned because its own context was done.
CancelledCall(s) == s.pc = "done" /\ Is(s.result.err, "Canceled")

\* Call c, for the inner outcomes it has got, is where a call running alone
\* is: every outcome but a final one was retried with the counter at its
\* index, the final one is returned, the counter counts the delays that have
\* elapsed, and the body sent is the body of the call.
IsolatedCall(c) ==
    LET s == cc[c]
        n == Len(s.outcomes)
    IN  /\ s.pc # "idle" => s.body = s.data /\ s.data = <<c>>
        /\ s.calls >= 1 => s.sent = s.data
        /\ s.calls <= MaxConcCalls
           => /\ n = IF s.pc = "inflight" THEN s.calls - 1 ELSE s.calls
              /\ \A i \in 1..n :
                    (i < n \/ s.pc # "done" \/ CancelledCall(s))
                    => RetriedAlone(s.outcomes[i], i - 1)
              /\ (s.pc = "done" /\ ~CancelledCall(s))
                 => /\ n >= 1
                    /\ ~RetriedAlone(s.outcomes[n], n - 1)
                    /\ s.result = ReturnedAlone(s.outcomes[n])
                    /\ s.retryCounter = n - 1
              /\ s.pc \in {"loop", "inflight"} => s.retryCounter = n
              /\ s.pc = "delay" => s.retryCounter = n - 1
              /\ CancelledCall(s)
                 => \/ s.result.err = <<"Canceled">> /\ s.retryCounter = n
                    \/ /\ s.result.err = <<"delay failed", "Canceled">>
                       /\ s.retryCounter = n - 1

\* C14: concurrent calls on one transport are isolated: no step of a call
\* writes retryLimit, retryDelay or the skip set, and under every
\* interleaving each call, with its own counter and body buffer, makes the
\* attempts and returns the result it would alone for its inner outcomes.
C14_ConcurrentCallsIsolated ==
    [][/\ UNCHANGED transportVars
       /\ \A c \in Calls : IsolatedCall(c)']_vars

\* Both calls are under way with different counters.
C14_Witness ==
    /\ retryLimit = 2
    /\ cc[1].pc = "delay" /\ cc[1].retryCounter = 1
    /\ cc[2].pc = "inflight" /\ cc[2].retryCounter = 0
    /\ cc[1].sent = <<1>> /\ cc[2].sent = <<2>>

\* Both calls have returned after a different number of attempts.
C14_WitnessDone ==
    /\ retryLimit = 1
    /\ cc[1].pc = "done" /\ cc[1].calls = 2 /\ cc[1].result.err = <<"roundtrip failed", "EOF">>
    /\ cc[2].pc = "done" /\ cc[2].calls = 1 /\ cc[2].result.resp.StatusCode = 200

(***************************************************************************)
(* Further claims about the client builder.                                *)
(***************************************************************************)
\* C21: the InsecureSkipVerify of a built TLS config is the value set last
\* with WithInsecureSkipVerify, false if never set; it is written after the
\* certificate material, whatever the order of the With* calls, and no
\* WithClientCert call changes the flag of the builder.
C21_InsecureSkipVerifyLast ==
    [][/\ roundTripper'.status = "ok"
          => roundTripper'.transport.tls.InsecureSkipVerify
             = roundTripper'.config.insecureSkipVerify
       /\ client'.status = "ok"
          => client'.transport.tls.InsecureSkipVerify
             = client'.config.insecureSkipVerify
       /\ withCalls' = 0 => ~builder'.insecureSkipVerify
       /\ builder'.insecureSkipVerify # builder.insecureSkipVerify
          => /\ builder'.caCertPath = builder.caCertPath
             /\ builder'.clientCertPath = builder.clientCertPath
             /\ builder'.clientKeyPath = builder.clientKeyPath]_vars

C21_Witness ==
    /\ withCalls = 2
    /\ roundTripper.status = "ok"
    /\ roundTripper.transport.tls.RootCAs = "caCertPool"
    /\ roundTripper.transport.tls.Certificates
    /\ roundTripper.transport.tls.InsecureSkipVerify

\* C29: the redirect callback of a client built with a budget below -1
\* rejects every hop, whatever the number of prior requests, with the
\* too-many-redirects error that names the negative budget.
C29_NegativeBudgetRejects ==
    [][(RedirectDecided /\ client.config.maxRedirect < -1)
       => /\ chain'.state = "returned"
          /\ chain'.hops = chain.hops
          /\ chain'.decided
             = <<"stopped after " \o ToString(client.config.maxRedirect)
                                  \o " redirects",
                 "too many redirects">>]_vars

\* C30: with one or two of the three paths empty, BuildRoundTripper and Build
\* report no error and the TLS config is the default one: no client
\* certificate, system trust roots, nothing loaded from the paths.
C30_PartialCertIgnored ==
    /\ (roundTripper.status # "none" /\ ~AllPathsSet(roundTripper.config))
       => /\ roundTripper.status = "ok"
          /\ roundTripper.err = NilErr
          /\ ~roundTripper.transport.tls.Certificates
          /\ roundTripper.transport.tls.RootCAs = "system"
    /\ (client.status # "none" /\ ~AllPathsSet(client.config))
       => /\ client.status = "ok"
          /\ client.err = NilErr
          /\ ~client.transport.tls.Certificates
          /\ client.transport.tls.RootCAs = "system"

C30_Witness ==
    /\ client.status = "ok"
    /\ client.config.caCertPath = "missing.pem"
    /\ client.config.clientCertPath = "missing.crt"
    /\ client.config.clientKeyPath = ""
    /\ client.transport.tls.RootCAs = "system"

(***************************************************************************)
(* The error classifier on its own: IsRetryError is called with errors of  *)
(* up to MaxWrap wrapping layers around a cause.                           *)
(***************************************************************************)
\* Causes: the four sentinels, an error whose Timeout() reports true, one
\* whose Timeout() reports false, and an application error.
CauseLayers ==
    {"EOF", "ECONNREFUSED", "DeadlineExceeded", "ErrHandlerTimeout",
     "TimeoutTrue", "TimeoutFalse", "Generic"}

\* Messages of wrapping layers (errors.Wrap, errors.Wrapf).
WrapLayers == {"roundtrip failed", "banana"}

RECURSIVE WrappedBy(_, _)
WrappedBy(errs, n) ==
    IF n = 0 THEN errs
    ELSE errs \cup WrappedBy({Wrap(e, w) : e \in errs, w \in WrapLayers}, n - 1)

ClassifiedErrors == WrappedBy({<<c>> : c \in CauseLayers}, MaxWrap)

\* IsRetryError(err) is called and returns.
IsRetryErrorCall(err) ==
    /\ retryCheck' = [err |-> err, called |-> TRUE,
                      isRetryError |-> IsRetryError(err)]
    /\ UNCHANGED <<retryVars, concVars, builderVars, gateVars,
                   backgroundVars, serverVars>>

ClassifierNext == \E err \in ClassifiedErrors : IsRetryErrorCall(err)

ClassifierInit ==
    /\ retryLimit = 0
    /\ retryDelay = 0
    /\ skipStatusCodesMap = toStatusCodeMap(defaultSkipStatusCodes)
    /\ BuilderIdle
    /\ ConcIdle
    /\ HandlersIdle
    /\ pc = "idle"
    /\ header = ""
    /\ reqBody = NilBody
    /\ ctxErr = NilErr
    /\ body = <<>>
    /\ retryCounter = 0
    /\ sent = NilBody
    /\ handed = <<>>
    /\ calls = 0
    /\ bodyReads = 0
    /\ outcomes = <<>>
    /\ result = NoResult

ClassifierSpec == ClassifierInit /\ [][ClassifierNext]_vars

Sentinels == {"EOF", "ECONNREFUSED", "DeadlineExceeded", "ErrHandlerTimeout"}

\* C22: IsRetryError returns true exactly when a layer of the error chain is
\* EOF, ECONNREFUSED, DeadlineExceeded or ErrHandlerTimeout, or when the
\* error one level below the outermost layer reports Timeout() = true; it
\* returns false for an application error and for a Timeout() of false.
C22_IsRetryErrorTable ==
    retryCheck.called
    => LET err == retryCheck.err IN
       /\ retryCheck.isRetryError
          <=> \/ \E i \in 1..Len(err) : err[i] \in Sentinels
              \/ Len(err) >= 2 /\ err[2] = "TimeoutTrue"
       /\ Cause(err) = "Generic" => ~retryCheck.isRetryError
       /\ Cause(err) = "TimeoutFalse" => ~retryCheck.isRetryError

C22_Witness ==
    /\ retryCheck.called
    /\ retryCheck.err = <<"banana", "TimeoutTrue">>
    /\ retryCheck.isRetryError

C22_WitnessFalse ==
    /\ retryCheck.called
    /\ retryCheck.err = <<"banana", "TimeoutFalse">>
    /\ ~retryCheck.isRetryError

(***************************************************************************)
(* The transport of the RoundTripperRetry tests:                           *)
(* NewRoundTripperRetry(roundTripper, 3, time.Nanosecond).                 *)
(***************************************************************************)
TestRetryLimit == 3

TestInit ==
    /\ retryLimit = TestRetryLimit
    /\ retryDelay = 1
    /\ skipStatusCodesMap = toStatusCodeMap(defaultSkipStatusCodes)
    /\ BuilderIdle
    /\ ConcIdle
    /\ HandlersIdle
    /\ pc = "idle"
    /\ header = ""
    /\ reqBody = NilBody
    /\ ctxErr = NilErr
    /\ body = <<>>
    /\ retryCounter = 0
    /\ sent = NilBody
    /\ handed = <<>>
    /\ calls = 0
    /\ bodyReads = 0
    /\ outcomes = <<>>
    /\ result = NoResult

TestSpec == TestInit /\ [][Next]_vars

\* Every inner invocation so far returned io.EOF.
AllEOF ==
    /\ Len(outcomes) >= 1
    /\ \A i \in 1..Len(outcomes) : outcomes[i] = Outcome(NilResp, <<"EOF">>)

\* C23: with retry limit 3 and an inner RoundTripper that returns io.EOF on
\* every invocation, the inner RoundTripper is invoked exactly once and
\* RoundTrip returns a nil response with a non-nil error, as the "eof" test
\* of the transport expects.
C23_EofOnce ==
    (header = "" /\ retryLimit = TestRetryLimit /\ Recorded /\ AllEOF)
    => /\ calls = 1
       /\ pc = "done"
       /\ result.resp = NilResp
       /\ result.err # NilErr

(***************************************************************************)
(* The dangerous-handler wrapper (http_server.go): ServeHTTP calls on one  *)
(* wrapper, each in three steps (getCurrentPassphrase under the mutex, the *)
(* verification under the mutex, the wrapped handler), and a clock.        *)
(***************************************************************************)
PassphraseTTL == 5

\* getCurrentPassphrase at time t: the passphrase is kept while t is before
\* its expiry, else a new one is generated that expires PassphraseTTL later.
getCurrentPassphrase(w, t) ==
    IF t < w.expiry
    THEN w
    ELSE [passphrase |-> Len(w.issued) + 1,
          expiry |-> t + PassphraseTTL,
          issued |-> Append(w.issued, t)]

\* Variant of the verification that does not look at the expiry.
validPassphrase_noExpiry(w, providedPassphrase, t) ==
    providedPassphrase = w.passphrase

\* The verification of ServeHTTP at time t.
validPassphrase(w, providedPassphrase, t) ==
    providedPassphrase = w.passphrase /\ t < w.expiry

\* A request with the passphrase parameter p arrives (again).
ServeHTTP(r, p) ==
    /\ dreq[r].pc \in {"idle", "done"}
    /\ dreq' = [dreq EXCEPT ![r] = [NoRequest EXCEPT !.pc = "start",
                                                     !.provided = p]]
    /\ UNCHANGED <<retryVars, concVars, builderVars, classifierVars,
                   backgroundVars, serverVars,
                   wrapper, now>>

\* First step of ServeHTTP: w.getCurrentPassphrase(path).
GetCurrentPassphrase(r) ==
    /\ dreq[r].pc = "start"
    /\ wrapper' = getCurrentPassphrase(wrapper, now)
    /\ dreq' = [dreq EXCEPT ![r].pc = "verify"]
    /\ UNCHANGED <<retryVars, concVars, builderVars, classifierVars,
                   backgroundVars, serverVars, now>>

\* Second step: an empty parameter is refused; otherwise the parameter is
\* compared with the passphrase and the clock with the expiry.  The request
\* keeps what it saw for the claims.
VerifyPassphrase(r) ==
    /\ dreq[r].pc = "verify"
    /\ dreq' = [dreq EXCEPT
                  ![r].at = now,
                  ![r].passphrase = wrapper.passphrase,
                  ![r].expiry = wrapper.expiry,
                  ![r].pc = IF dreq[r].provided = 0
                            THEN "done"
                            ELSE IF validPassphrase(wrapper, dreq[r].provided, now)
                            THEN "execute"
                            ELSE "done",
                  ![r].status = IF dreq[r].provided = 0
                                THEN 403
                                ELSE IF validPassphrase(wrapper, dreq[r].provided, now)
                                THEN 0
                                ELSE 403]
    /\ UNCHANGED <<retryVars, concVars, builderVars, classifierVars,
                   backgroundVars, serverVars,
                   wrapper, now>>

\* Third step: w.handler.ServeHTTP(resp, req).
ExecuteHandler(r) ==
    /\ dreq[r].pc = "execute"
    /\ dreq' = [dreq EXCEPT ![r].pc = "done", ![r].status = 200,
                            ![r].executed = TRUE]
    /\ UNCHANGED <<retryVars, concVars, builderVars, classifierVars,
                   backgroundVars, serverVars,
                   wrapper, now>>

\* The clock advances by a minute.
Tick ==
    /\ now < MaxNow
    /\ now' = now + 1
    /\ UNCHANGED <<retryVars, concVars, builderVars, classifierVars,
                   backgroundVars, serverVars,
                   wrapper, dreq>>

GateNext ==
    \/ \E r \in DangerousRequests, p \in 0..MaxPass : ServeHTTP(r, p)
    \/ \E r \in DangerousRequests : GetCurrentPassphrase(r)
    \/ \E r \in DangerousRequests : VerifyPassphrase(r)
    \/ \E r \in DangerousRequests : ExecuteHandler(r)
    \/ Tick

GateInit ==
    /\ retryLimit = 0
    /\ retryDelay = 0
    /\ skipStatusCodesMap = toStatusCodeMap(defaultSkipStatusCodes)
    /\ BuilderIdle
    /\ ConcIdle
    /\ HandlersIdle
    /\ pc = "idle"
    /\ header = ""
    /\ reqBody = NilBody
    /\ ctxErr = NilErr
    /\ body = <<>>
    /\ retryCounter = 0
    /\ sent = NilBody
    /\ handed = <<>>
    /\ calls = 0
    /\ bodyReads = 0
    /\ outcomes = <<>>
    /\ result = NoResult

GateSpec == GateInit /\ [][GateNext]_vars

\* C24: the wrapped handler runs for a request only if, when the request
\* was verified, its passphrase parameter was non-empty and equal to the
\* passphrase of the wrapper and the clock was before the expiry of that
\* passphrase, PassphraseTTL after it was generated; every other request
\* gets 403 and the handler does not run for it.
C24_DangerousGate ==
    \A r \in DangerousRequests :
       LET q == dreq[r]
           accepted == q.pc = "execute" \/ q.executed
           verified == q.pc = "execute" \/ q.pc = "done"
       IN  /\ accepted
              => /\ q.provided # 0
                 /\ q.provided = q.passphrase
                 /\ q.provided \in 1..Len(wrapper.issued)
                 /\ q.expiry = wrapper.issued[q.provided] + PassphraseTTL
                 /\ q.at >= wrapper.issued[q.provided]
                 /\ q.at < wrapper.issued[q.provided] + PassphraseTTL
           /\ (verified /\ ~accepted)
              => /\ q.status = 403
                 /\ ~q.executed
           /\ (q.pc = "done" /\ accepted) => q.status = 200
           /\ q.executed => q.pc = "done"

\* The second passphrase is accepted while a request with the first one,
\* expired by then, has been refused.
C24_Witness ==
    /\ dreq[1].executed /\ dreq[1].provided = 2 /\ dreq[1].at >= PassphraseTTL
    /\ dreq[2].pc = "done" /\ dreq[2].provided = 1 /\ dreq[2].status = 403
    /\ dreq[2].at >= PassphraseTTL

(***************************************************************************)
(* The background-run handlers (http_background-handler.go and             *)
(* http_background-request-handler.go; they differ only in the arguments   *)
(* of runFunc).  A trigger request starts a goroutine and is answered; the *)
(* goroutine asks the ParallelSkipper, which runs runFunc unless a run is  *)
(* in progress.                                                            *)
(***************************************************************************)
otherThanBackground ==
    <<retryVars, concVars, builderVars, classifierVars, gateVars, serverVars>>

\* The handler is called: the go statement starts the goroutine.
TriggerRequest(t) ==
    /\ trig[t].handler = "idle"
    /\ trig' = [trig EXCEPT ![t].handler = "respond",
                            ![t].goroutine = "started",
                            ![t].duringRun = skipper.running]
    /\ UNCHANGED <<otherThanBackground, skipper>>

\* WriteAndGlog(resp, "run triggered..."): the handler returns.
WriteResponse(t) ==
    /\ trig[t].handler = "respond"
    /\ trig' = [trig EXCEPT ![t].handler = "answered"]
    /\ UNCHANGED <<otherThanBackground, skipper>>

\* Variant of the skipper that runs the action whether or not one is in
\* progress.
SkipParallel_noSkip(t) ==
    /\ trig[t].goroutine = "started"
    /\ trig' = [trig EXCEPT ![t].goroutine = "running",
                            ![t].foundBusy = skipper.running]
    /\ skipper' = [running |-> TRUE,
                   executions |-> skipper.executions + 1,
                   inProgress |-> skipper.inProgress + 1]
    /\ UNCHANGED otherThanBackground

\* The goroutine calls the action of SkipParallel: with a run in progress it
\* returns at once, otherwise runFunc starts.
SkipParallel(t) ==
    /\ trig[t].goroutine = "started"
    /\ IF skipper.running
       THEN /\ trig' = [trig EXCEPT ![t].goroutine = "skipped",
                                    ![t].foundBusy = TRUE]
            /\ UNCHANGED skipper
       ELSE /\ trig' = [trig EXCEPT ![t].goroutine = "running"]
            /\ skipper' = [running |-> TRUE,
                           executions |-> skipper.executions + 1,
                           inProgress |-> skipper.inProgress + 1]
    /\ UNCHANGED otherThanBackground

\* runFunc returns (with or without error): the skipper is free again.
RunFuncReturns(t) ==
    /\ trig[t].goroutine = "running"
    /\ trig' = [trig EXCEPT ![t].goroutine = "completed"]
    /\ skipper' = [skipper EXCEPT !.running = FALSE, !.inProgress = @ - 1]
    /\ UNCHANGED otherThanBackground

BackgroundNext ==
    \/ \E t \in Triggers : TriggerRequest(t)
    \/ \E t \in Triggers : WriteResponse(t)
    \/ \E t \in Triggers : SkipParallel(t)
    \/ \E t \in Triggers : RunFuncReturns(t)

BackgroundInit ==
    /\ retryLimit = 0
    /\ retryDelay = 0
    /\ skipStatusCodesMap = toStatusCodeMap(defaultSkipStatusCodes)
    /\ BuilderIdle
    /\ ConcIdle
    /\ HandlersIdle
    /\ pc = "idle"
    /\ header = ""
    /\ reqBody = NilBody
    /\ ctxErr = NilErr
    /\ body = <<>>
    /\ retryCounter = 0
    /\ sent = NilBody
    /\ handed = <<>>
    /\ calls = 0
    /\ bodyReads = 0
    /\ outcomes = <<>>
    /\ result = NoResult

BackgroundSpec == BackgroundInit /\ [][BackgroundNext]_vars

Executed(t) == trig[t].goroutine \in {"running", "completed"}

\* C25 as stated: at most one execution of runFunc is in progress, a trigger
\* request that arrives while one is in progress starts no execution, then
\* or later, and a handler that has started its goroutine can answer
\* whatever the state of the run.
C25_SingleExecution ==
    /\ skipper.inProgress <= 1
    /\ \A t \in Triggers :
          /\ trig[t].duringRun => ~Executed(t)
          /\ trig[t].handler = "respond" => ENABLED WriteResponse(t)

\* C25 amended: the trigger request that starts no execution is the one
\* whose goroutine reaches the skipper while an execution is in progress.
C25_SingleExecutionAtSkipper ==
    /\ skipper.inProgress <= 1
    /\ skipper.running <=> skipper.inProgress = 1
    /\ skipper.executions = Cardinality({t \in Triggers : Executed(t)})
    /\ \A t \in Triggers :
          /\ trig[t].foundBusy => trig[t].goroutine = "skipped"
          /\ trig[t].goroutine = "skipped" => trig[t].foundBusy
          /\ trig[t].handler = "respond" => ENABLED WriteResponse(t)

\* Two triggers during one run: one execution, both answered meanwhile.
C25_Witness ==
    /\ skipper.inProgress = 1
    /\ skipper.executions = 1
    /\ trig[1].goroutine = "running"
    /\ trig[2].goroutine = "skipped" /\ trig[2].handler = "answered"
    /\ trig[3].goroutine = "skipped" /\ trig[3].handler = "answered"

(***************************************************************************)
(* The server run function of NewServer (http_server.go): runServer blocks *)
(* in ListenAndServe while a goroutine waits for ctx.Done() and then calls *)
(* server.Shutdown with a context of ShutdownTimeout.  As net/http         *)
(* documents, ListenAndServe returns ErrServerClosed as soon as Shutdown   *)
(* is called; Shutdown returns when no request is being served any more or *)
(* when its context is done.                                               *)
(***************************************************************************)
otherThanServer ==
    <<retryVars, concVars, builderVars, classifierVars, gateVars,
      backgroundVars>>

\* The run function is called: the goroutine is started, runServer listens.
RunServer ==
    /\ srv.pc = "idle"
    /\ srv' = [srv EXCEPT !.pc = "serving"]
    /\ UNCHANGED otherThanServer

\* ListenAndServe fails (the address is in use, the listener breaks): the
\* error is wrapped and returned.
ListenAndServeFails ==
    /\ srv.pc = "serving"
    /\ srv.shutdown = "none"
    /\ srv' = [srv EXCEPT !.pc = "returned",
                          !.result = Wrap(<<"listen error">>, "httpServer failed")]
    /\ UNCHANGED otherThanServer

\* The server accepts a request; the router starts to serve it.
AcceptRequest ==
    /\ srv.pc = "serving"
    /\ srv.shutdown = "none"
    /\ srv.conns < MaxConns
    /\ srv' = [srv EXCEPT !.conns = @ + 1]
    /\ UNCHANGED otherThanServer

\* The router has served a request.
RequestServed ==
    /\ srv.conns > 0
    /\ srv' = [srv EXCEPT !.conns = @ - 1]
    /\ UNCHANGED otherThanServer

\* The context of the run function is cancelled.
CancelContext ==
    /\ ~srv.ctxDone
    /\ srv' = [srv EXCEPT !.ctxDone = TRUE]
    /\ UNCHANGED otherThanServer

\* The goroutine leaves <-ctx.Done() and calls server.Shutdown(shutdownCtx).
ShutdownStarts ==
    /\ srv.pc # "idle"
    /\ srv.ctxDone
    /\ srv.shutdown = "none"
    /\ srv' = [srv EXCEPT !.shutdown = "started", !.waited = 0]
    /\ UNCHANGED otherThanServer

\* ListenAndServe returns ErrServerClosed once Shutdown has been called; the
\* run function returns nil.
ListenAndServeReturns ==
    /\ srv.pc = "serving"
    /\ srv.shutdown # "none"
    /\ srv' = [srv EXCEPT !.pc = "returned", !.result = NilErr]
    /\ UNCHANGED otherThanServer

\* A second passes while Shutdown waits for the requests being served.
ShutdownWaits ==
    /\ srv.shutdown = "started"
    /\ srv.conns > 0
    /\ srv.waited < srv.ShutdownTimeout
    /\ srv' = [srv EXCEPT !.waited = @ + 1]
    /\ UNCHANGED otherThanServer

\* Shutdown returns nil: no request is being served.
ShutdownCompletes ==
    /\ srv.shutdown = "started"
    /\ srv.conns = 0
    /\ srv' = [srv EXCEPT !.shutdown = "completed"]
    /\ UNCHANGED otherThanServer

\* Shutdown returns the error of its context: ShutdownTimeout has passed.
ShutdownTimesOut ==
    /\ srv.shutdown = "started"
    /\ srv.conns > 0
    /\ srv.waited = srv.ShutdownTimeout
    /\ srv' = [srv EXCEPT !.shutdown = "timedout"]
    /\ UNCHANGED otherThanServer

ServerNext ==
    \/ RunServer
    \/ ListenAndServeFails
    \/ AcceptRequest
    \/ RequestServed
    \/ CancelContext
    \/ ShutdownStarts
    \/ ListenAndServeReturns
    \/ ShutdownWaits
    \/ ShutdownCompletes
    \/ ShutdownTimesOut

\* ShutdownTimeout values of the server options.
ShutdownTimeouts == {1, DefaultShutdownTimeout}

ServerInit ==
    /\ retryLimit = 0
    /\ retryDelay = 0
    /\ skipStatusCodesMap = toStatusCodeMap(defaultSkipStatusCodes)
    /\ BuilderIdle
    /\ ConcIdle
    /\ retryCheck = NoCheck
    /\ GateIdle
    /\ BackgroundIdle
    /\ \E t \in ShutdownTimeouts : srv = [NewServer EXCEPT !.ShutdownTimeout = t]
    /\ pc = "idle"
    /\ header = ""
    /\ reqBody = NilBody
    /\ ctxErr = NilErr
    /\ body = <<>>
    /\ retryCounter = 0
    /\ sent = NilBody
    /\ handed = <<>>
    /\ calls = 0
    /\ bodyReads = 0
    /\ outcomes = <<>>
    /\ result = NoResult

ServerSpec == ServerInit /\ [][ServerNext]_vars

\* C26: when the context is cancelled while the server is serving, Shutdown
\* is started with ShutdownTimeout and the run function returns nil, and it
\* has not returned before Shutdown has completed or timed out.
C26_GracefulShutdown ==
    (srv.pc = "returned" /\ srv.shutdown # "none" /\ srv.result = NilErr)
    => /\ srv.ctxDone
       /\ srv.shutdown \in {"completed", "timedout"}
       /\ srv.shutdown = "completed" => srv.conns = 0
       /\ srv.shutdown = "timedout" => srv.waited = srv.ShutdownTimeout

(***************************************************************************)
(* The request body on the retry path.                                     *)
(***************************************************************************)
\* The call is on the retry path: RoundTrip was called without the
\* prevent-retry header.
OnRetryPath == pc # "idle" /\ ~preventRetry(header)

\* C27: when reading the request body fails on the retry path, RoundTrip
\* returns a nil response with the read error and the inner RoundTripper is
\* never invoked; a request with a nil body is not read, and every attempt is
\* sent with a nil body.
C27_BodyBuffering ==
    /\ (OnRetryPath /\ reqBody.present /\ reqBody.fail)
       => /\ pc = "done"
          /\ result = Outcome(NilResp, <<"ReadError">>)
          /\ calls = 0
          /\ outcomes = <<>>
    /\ (OnRetryPath /\ ~reqBody.present)
       => /\ bodyReads = 0
          /\ body = <<>>
          /\ calls > 0 => sent = NilBody /\ handed = <<>>

\* A call on the retry path whose body reader failed has returned.
C27_Witness ==
    /\ OnRetryPath
    /\ reqBody.present
    /\ reqBody.fail
    /\ pc = "done"
    /\ result.err = <<"ReadError">>

\* A call with a nil body is in its second attempt.
C27_WitnessNil ==
    /\ OnRetryPath
    /\ ~reqBody.present
    /\ pc = "inflight"
    /\ calls = 2
    /\ sent = NilBody

(***************************************************************************)
(* Status-code failures and the result of the call.                        *)
(***************************************************************************)
\* Every recorded attempt of the call returned a response, and there is one.
OnlyResponses ==
    /\ Recorded
    /\ Len(outcomes) >= 1
    /\ \A i \in 1..Len(outcomes) : outcomes[i].err = NilErr

\* C28 as stated: a call in which no attempt returned a transport error
\* returns a response with a nil error, also when the context is cancelled
\* during the delay that follows a retryable response.
C28_ResponseSurfaced ==
    (pc = "done" /\ OnlyResponses)
    => /\ result.err = NilErr
       /\ result.resp # NilResp

\* C28, amended: a call in which no attempt returned a transport error
\* returns the response of its last attempt with a nil error, unless the
\* context was done before the next attempt or during the delay; then it
\* returns a nil response with the error of the context, as it is before an
\* attempt and wrapped as "delay failed" during the delay.
C28_ResponseOrCancellation ==
    (pc = "done" /\ OnlyResponses)
    => \/ result = Outcome(Last(outcomes).resp, NilErr)
       \/ /\ ctxErr # NilErr
          /\ ~preventRetry(header)
          /\ result.resp = NilResp
          /\ \/ /\ result.err = ctxErr
                /\ retryCounter >= 1
                /\ shouldRetryStatusCode(Last(outcomes).resp.StatusCode,
                                         retryCounter - 1)
             \/ /\ result.err = <<"delay failed">> \o ctxErr
                /\ retryDelay > 0
                /\ shouldRetryStatusCode(Last(outcomes).resp.StatusCode,
                                         retryCounter)

\* A server error was retried to the limit and is returned as a response.
C28_Witness ==
    /\ pc = "done"
    /\ OnlyResponses
    /\ Len(outcomes) = 3
    /\ retryCounter = 2
    /\ result = Outcome(Last(outcomes).resp, NilErr)
    /\ result.resp.StatusCode = 500

\* The context was cancelled during the delay after a retryable response.
C28_WitnessCancelled ==
    /\ pc = "done"
    /\ OnlyResponses
    /\ Last(outcomes).resp.StatusCode = 502
    /\ result = Outcome(NilResp, <<"delay failed", "Canceled">>)

====
